---- MODULE Spec2Model ----
(***************************************************************************)
(* Model of the review harvest of google-maps-reviews-scraper:             *)
(*   parseRelativeDate / isDateBefore   (dates module)                     *)
(*   ScraperReviews                     (ScrapeReviewsUpdate module)       *)
(*   scrapeGoogleMapsReviews / scrapeNewGoogleMapsReviews  (index.ts)      *)
(* The page (puppeteer Page + the DOM of the listing) is the environment:  *)
(* every page.evaluate call either throws or answers with the records of   *)
(* the unprocessed suffix, the rendered total and the suffix size.         *)
(***************************************************************************)
EXTENDS Integers, Sequences, FiniteSets, TLC

(***************************************************************************)
(* Bounds of the model.                                                    *)
(***************************************************************************)
\* evaluate calls the environment answers in one harvest
MaxCalls == 4
\* largest rendered total the page reports (so a batch holds at most MaxTotal records)
MaxTotal == 2
\* milliseconds the wall clock may advance between the two parse calls of one comparison
MaxTick == 1
\* evaluate calls answered by the endlessly growing listing
EndlessCalls == 102
\* reviews the endlessly growing listing renders on every reveal
RevealSize == 10

(***************************************************************************)
(* Program constants.                                                      *)
(***************************************************************************)
MAX_NO_NEW_ELEMENTS == 3
REVIEW_LIMIT == 1000
MS_PER_DAY == 86400000
MS_PER_HOUR == 3600000
MAX_DAY == 100000000

(***************************************************************************)
(* Texts are sequences of one-character strings, so that trimming,         *)
(* lower-casing and matching are computed and not assumed.                 *)
(***************************************************************************)
UpperChars == <<"A","B","C","D","E","F","G","H","I","J","K","L","M",
                "N","O","P","Q","R","S","T","U","V","W","X","Y","Z">>
LowerChars == <<"a","b","c","d","e","f","g","h","i","j","k","l","m",
                "n","o","p","q","r","s","t","u","v","w","x","y","z">>
DigitChars == <<"0","1","2","3","4","5","6","7","8","9">>
WhiteSpace == {" ", "\t", "\n"}

IsDigit(c) == \E i \in 1..10 : DigitChars[i] = c
DigitVal(c) == (CHOOSE i \in 1..10 : DigitChars[i] = c) - 1

\* String.prototype.toLowerCase, one character
LowerChar(c) ==
  IF \E i \in 1..26 : UpperChars[i] = c
  THEN LowerChars[CHOOSE i \in 1..26 : UpperChars[i] = c]
  ELSE c

toLowerCase(s) == [i \in 1..Len(s) |-> LowerChar(s[i])]

\* String.prototype.trim
trim(s) ==
  LET nonWs == {i \in 1..Len(s) : s[i] \notin WhiteSpace}
  IN  IF nonWs = {} THEN <<>>
      ELSE LET lo == CHOOSE i \in nonWs : \A j \in nonWs : i <= j
               hi == CHOOSE i \in nonWs : \A j \in nonWs : i >= j
           IN  SubSeq(s, lo, hi)

\* The maximal runs of non-white-space characters of s, in order.
RECURSIVE Tokens(_)
Tokens(s) ==
  IF s = <<>> THEN <<>>
  ELSE IF s[1] \in WhiteSpace THEN Tokens(Tail(s))
  ELSE LET ws  == {i \in 1..Len(s) : s[i] \in WhiteSpace}
           end == IF ws = {} THEN Len(s) + 1
                  ELSE CHOOSE i \in ws : \A j \in ws : i <= j
       IN  <<SubSeq(s, 1, end - 1)>> \o Tokens(SubSeq(s, end, Len(s)))

\* parseInt(digits, 10) on a non-empty run of decimal digits
RECURSIVE parseInt(_)
parseInt(ds) ==
  IF ds = <<>> THEN 0
  ELSE 10 * parseInt(SubSeq(ds, 1, Len(ds) - 1)) + DigitVal(ds[Len(ds)])

UnitWords ==
  [second |-> <<"s","e","c","o","n","d">>,
   minute |-> <<"m","i","n","u","t","e">>,
   hour   |-> <<"h","o","u","r">>,
   day    |-> <<"d","a","y">>,
   week   |-> <<"w","e","e","k">>,
   month  |-> <<"m","o","n","t","h">>,
   year   |-> <<"y","e","a","r">>]
Units == DOMAIN UnitWords

\* The first capture group (a|an|\d+)
IsAmount(tok) ==
  \/ tok = <<"a">>
  \/ tok = <<"a","n">>
  \/ Len(tok) > 0 /\ \A i \in 1..Len(tok) : IsDigit(tok[i])

\* The second capture group followed by the optional s
UnitsOf(tok) == {u \in Units : tok = UnitWords[u] \/ tok = UnitWords[u] \o <<"s">>}

\* mutant: the pattern ends after the unit, the last word is not looked at
MatchTokensAnyTail(toks) ==
  IF /\ Len(toks) = 3
     /\ IsAmount(toks[1])
     /\ UnitsOf(toks[2]) # {}
  THEN [matched |-> TRUE, amountStr |-> toks[1],
        unit |-> CHOOSE u \in UnitsOf(toks[2]) : TRUE]
  ELSE [matched |-> FALSE, amountStr |-> <<>>, unit |-> "day"]
\* /^(a|an|\d+)\s+(second|minute|hour|day|week|month|year)s?\s+ago$/ : none
\* of the three parts can hold white space and each is followed by \s+ or
\* the end, so the match is decided by the white-space separated tokens.
MatchTokens(toks) ==
  IF /\ Len(toks) = 3
     /\ IsAmount(toks[1])
     /\ UnitsOf(toks[2]) # {}
     /\ toks[3] = <<"a","g","o">>
  THEN [matched |-> TRUE, amountStr |-> toks[1],
        unit |-> CHOOSE u \in UnitsOf(toks[2]) : TRUE]
  ELSE [matched |-> FALSE, amountStr |-> <<>>, unit |-> "day"]

Match(trimmed) == MatchTokens(Tokens(trimmed))

(***************************************************************************)
(* Dates.  A Date is its time value: a day number (days since 1970-01-01)  *)
(* and the millisecond of that day, in UTC.  null and the Invalid Date     *)
(* (time value NaN) are values of the same shape.  The setters and getters *)
(* parseRelativeDate uses work on the local time of the process's zone.    *)
(***************************************************************************)
VARIABLE zone              \* the time zone of the process (TZ)

Null == [kind |-> "null", day |-> 0, ms |-> 0]
InvalidDate == [kind |-> "nan", day |-> 0, ms |-> 0]

\* TimeClip: a time value beyond +-8.64e15 ms is NaN
MakeDate(day, ms) ==
  LET d == day + (ms \div MS_PER_DAY)
      m == ms % MS_PER_DAY
  IN  IF d > MAX_DAY \/ d < -MAX_DAY \/ (d = MAX_DAY /\ m > 0)
      THEN InvalidDate
      ELSE [kind |-> "date", day |-> d, ms |-> m]

\* MakeDay(year, month, 1) for month in 1..12 (proleptic Gregorian calendar)
DaysFromCivil(y0, m, d) ==
  LET y   == IF m <= 2 THEN y0 - 1 ELSE y0
      era == y \div 400
      yoe == y - era * 400
      mp  == IF m > 2 THEN m - 3 ELSE m + 9
      doy == (153 * mp + 2) \div 5 + d - 1
      doe == yoe * 365 + yoe \div 4 - yoe \div 100 + doy
  IN  era * 146097 + doe - 719468

\* YearFromTime / MonthFromTime / DateFromTime of day z0, by era (400 years),
\* day of era, year of era, day of year (from March 1) and month (from March)
CivilOfMonth(era, yoe, doy, mp) ==
  [year  |-> yoe + era * 400 + (IF mp < 10 THEN 0 ELSE 1),
   month |-> IF mp < 10 THEN mp + 3 ELSE mp - 9,
   date  |-> doy - (153 * mp + 2) \div 5 + 1]
CivilOfDoy(era, yoe, doy) == CivilOfMonth(era, yoe, doy, (5 * doy + 2) \div 153)
CivilOfYoe(era, doe, yoe) ==
  CivilOfDoy(era, yoe, doe - (365 * yoe + yoe \div 4 - yoe \div 100))
CivilOfDoe(era, doe) ==
  CivilOfYoe(era, doe, (doe - doe \div 1460 + doe \div 36524 - doe \div 146096) \div 365)
CivilFromDays(z0) == CivilOfDoe((z0 + 719468) \div 146097, (z0 + 719468) % 146097)

\* A zone is UTC, or a zone on UTC+0 with summer time (+1 h) from the last
\* Sunday of March to the last Sunday of October, both switches at 01:00 UTC
\* (Europe/London; the rule is applied to every year).
UTCZone == [dst |-> FALSE]
LondonZone == [dst |-> TRUE]

\* WeekDay: 0 is Sunday
WeekDay(day) == (day + 4) % 7
LastSunday(year, month) ==
  DaysFromCivil(year, month, 31) - WeekDay(DaysFromCivil(year, month, 31))
\* the wall time (day, ms) is at or after hour h of day d
AtOrAfter(day, ms, d, h) == day > d \/ (day = d /\ ms >= h * MS_PER_HOUR)
\* summer time holds in wall time (day, ms) of a year, the switches being
\* at hour h of the two Sundays
InSummer(year, day, ms, h) ==
  /\ AtOrAfter(day, ms, LastSunday(year, 3), h)
  /\ ~AtOrAfter(day, ms, LastSunday(year, 10), h)
\* LocalTZA(t, true): the offset of the zone at the UTC time t
LocalTZA(t) ==
  IF zone.dst /\ InSummer(CivilFromDays(t.day).year, t.day, t.ms, 1)
  THEN MS_PER_HOUR ELSE 0
\* LocalTZA(tlocal, false): the offset at a local time; a local time that is
\* skipped or repeated by a switch takes the offset before the switch
LocalOffset(l) ==
  IF zone.dst /\ InSummer(CivilFromDays(l.day).year, l.day, l.ms, 2)
  THEN MS_PER_HOUR ELSE 0
\* a local time value as day and millisecond of the day
WallTime(day, ms) == [day |-> day + (ms \div MS_PER_DAY), ms |-> ms % MS_PER_DAY]
\* LocalTime(t)
LocalTime(t) == WallTime(t.day, t.ms + LocalTZA(t))
\* TimeClip(UTC(tlocal))
UTC(l) == MakeDate(l.day, l.ms - LocalOffset(l))

\* result.setSeconds / setMinutes / setHours (field - amount): the local
\* time with that field changed, taken back to UTC
SubLocalMs(l, n) == UTC(WallTime(l.day, l.ms - n))
SubMs(t, n) == SubLocalMs(LocalTime(t), n)
\* result.setDate(result.getDate() - amount)
SubLocalDays(l, n) == UTC(WallTime(l.day - n, l.ms))
SubDays(t, n) == SubLocalDays(LocalTime(t), n)
\* MakeDate(MakeDay(year, month0, date), TimeWithinDay): month0 counts from 0
\* and may lie outside 0..11, date may lie outside the month
DateOfFields(year, month0, date, ms) ==
  UTC(WallTime(DaysFromCivil(year + (month0 \div 12), (month0 % 12) + 1, 1) + (date - 1), ms))
SetMonth(c, ms, month0) == DateOfFields(c.year, month0, c.date, ms)
SetFullYear(c, ms, year) == DateOfFields(year, c.month - 1, c.date, ms)
\* result.setMonth(result.getMonth() - amount): the day of month is kept and overflows
SubLocalMonths(l, n) == SetMonth(CivilFromDays(l.day), l.ms, CivilFromDays(l.day).month - 1 - n)
SubMonths(t, n) == SubLocalMonths(LocalTime(t), n)
\* result.setFullYear(result.getFullYear() - amount)
SubLocalYears(l, n) == SetFullYear(CivilFromDays(l.day), l.ms, CivilFromDays(l.day).year - n)
SubYears(t, n) == SubLocalYears(LocalTime(t), n)

(***************************************************************************)
(* Texts used as posted-times and cutoffs.                                 *)
(***************************************************************************)
OneDayAgo    == <<"1"," ","d","a","y"," ","a","g","o">>
TwoDaysAgo   == <<"2"," ","d","a","y","s"," ","a","g","o">>
ThreeDaysAgo == <<"3"," ","d","a","y","s"," ","a","g","o">>
FiveDaysAgo  == <<"5"," ","d","a","y","s"," ","a","g","o">>
UnknownDate  == <<"U","n","k","n","o","w","n"," ","d","a","t","e">>
Gibberish    == <<"g","i","b","b","e","r","i","s","h">>
EmptyText    == <<>>
AWeekAgo == <<"a"," ","w","e","e","k"," ","a","g","o">>
AnHourAgo == <<"a","n"," ","h","o","u","r"," ","a","g","o">>
FiveMinutesAgo == <<"5"," ","m","i","n","u","t","e","s"," ","a","g","o">>
HalfMinuteAgo == <<"3","0"," ","s","e","c","o","n","d","s"," ","a","g","o">>
AMonthAgo == <<"a"," ","m","o","n","t","h"," ","a","g","o">>
AYearAgo == <<"a"," ","y","e","a","r"," ","a","g","o">>
PaddedTwoDays == <<" "," ","2"," ","D","a","y","s"," ","A","G","O","\n">>
AgesAgo == <<"3","0","0","0","0","0"," ","y","e","a","r","s"," ","a","g","o">>
NoAgo == <<"2"," ","d","a","y","s">>
NoAmount == <<"d","a","y","s"," ","a","g","o">>
WordAmount == <<"t","w","o"," ","d","a","y","s"," ","a","g","o">>
Glued == <<"2","d","a","y","s"," ","a","g","o">>
BadUnit == <<"2"," ","d","a","y","z"," ","a","g","o">>
Trailing == <<"2"," ","d","a","y","s"," ","a","g","o","!">>
Negative == <<"-","2"," ","d","a","y","s"," ","a","g","o">>

\* The match of every text above, evaluated once.
MatchTable ==
  [t \in {OneDayAgo, TwoDaysAgo, ThreeDaysAgo, FiveDaysAgo, UnknownDate,
          Gibberish, EmptyText, AWeekAgo, AnHourAgo, FiveMinutesAgo,
          HalfMinuteAgo, AMonthAgo, AYearAgo, PaddedTwoDays, AgesAgo, NoAgo,
          NoAmount, WordAmount, Glued, BadUnit, Trailing, Negative}
     |-> Match(toLowerCase(trim(t)))]

\* const trimmed = ...trim().toLowerCase(); const match = trimmed.match(...)
MatchOf(relativeDateString) ==
  IF relativeDateString \in DOMAIN MatchTable
  THEN MatchTable[relativeDateString]
  ELSE Match(toLowerCase(trim(relativeDateString)))

\* Convert "a" or "an" to 1, otherwise parse the number
AmountOf(amountStr) ==
  IF amountStr = <<"a">> \/ amountStr = <<"a","n">> THEN 1 ELSE parseInt(amountStr)

\* switch (unit) { ... } on result = new Date(now)
SubtractUnit(unit, amount, clock) ==
  CASE unit = "second" -> SubMs(clock, amount * 1000)
    [] unit = "minute" -> SubMs(clock, amount * 60000)
    [] unit = "hour"   -> SubMs(clock, amount * 3600000)
    [] unit = "day"    -> SubDays(clock, amount)
    [] unit = "week"   -> SubDays(clock, amount * 7)
    [] unit = "month"  -> SubMonths(clock, amount)
    [] unit = "year"   -> SubYears(clock, amount)

DateOfMatch(match, clock) ==
  IF ~match.matched THEN Null
  ELSE SubtractUnit(match.unit, AmountOf(match.amountStr), clock)

\* parseRelativeDate(relativeDateString) with new Date() = clock
parseRelativeDate(relativeDateString, clock) ==
  DateOfMatch(MatchOf(relativeDateString), clock)

\* mutant: d1 > d2 in place of d1 >= d2
isDateBeforeStrict(d1, d2) ==
  IF d1.kind = "null" \/ d2.kind = "null" THEN "null"
  ELSE IF d1.kind = "nan" \/ d2.kind = "nan" THEN "null"
  ELSE IF \/ d1.day > d2.day
          \/ d1.day = d2.day /\ d1.ms > d2.ms
       THEN "true" ELSE "false"
\* mutant: the isNaN test is missing, and a comparison with NaN is false
isDateBeforeUnchecked(d1, d2) ==
  IF d1.kind = "null" \/ d2.kind = "null" THEN "null"
  ELSE IF d1.kind = "nan" \/ d2.kind = "nan" THEN "false"
  ELSE IF \/ d1.day > d2.day
          \/ d1.day = d2.day /\ d1.ms >= d2.ms
       THEN "true" ELSE "false"
\* isDateBefore(newDate, lastScrapedDate): "true", "false" or "null"
isDateBefore(d1, d2) ==
  IF d1.kind = "null" \/ d2.kind = "null" THEN "null"
  ELSE IF d1.kind = "nan" \/ d2.kind = "nan" THEN "null"
  ELSE IF \/ d1.day > d2.day
          \/ d1.day = d2.day /\ d1.ms >= d2.ms
       THEN "true" ELSE "false"

\* the optional argument lastScrapedDate?: string
Undefined == [defined |-> FALSE, text |-> <<>>]
Str(t) == [defined |-> TRUE, text |-> t]
\* if (lastScrapedDate): undefined and "" are falsy
Truthy(v) == v.defined /\ v.text # <<>>

\* 2025-06-20T12:00:00.000Z
Noon == MakeDate(DaysFromCivil(2025, 6, 20), 43200000)

(***************************************************************************)
(* The listings the page may show.  A record is what the in-page           *)
(* extraction pushes for one element: its id, posted-time text and rating  *)
(* class (the other fields are carried along unread by the loop).          *)
(***************************************************************************)
ReviewsOf(ids, posteds, ratings) ==
  [id : ids, reviewPostedAt : posteds, isHighRating : ratings]

\* records: what the elements of the page may hold, in any order; stream: the
\* elements of a page whose order is fixed (empty when the order is free)
Listing(records) ==
  [endless |-> FALSE, records |-> records, stream |-> <<>>, calls |-> MaxCalls]
\* a listing that renders RevealSize new low-rating, recent reviews on every reveal
EndlessListing ==
  [endless |-> TRUE, records |-> {}, stream |-> <<>>, calls |-> EndlessCalls]

\* lowest-rating-first listing: two authors, a repeated id, one high rating
RatedListing == Listing(ReviewsOf({1}, {OneDayAgo, ThreeDaysAgo}, {FALSE})
                        \cup ReviewsOf({2}, {OneDayAgo}, BOOLEAN))
\* newest-first listing: recent, old and undated reviews
DatedListing == Listing(ReviewsOf({1}, {OneDayAgo, ThreeDaysAgo}, {FALSE})
                        \cup ReviewsOf({2}, {UnknownDate}, {FALSE}))
\* newest-first listing of recent reviews, one of them with a high rating
RecentListing == Listing(ReviewsOf({1}, {OneDayAgo}, {FALSE})
                         \cup ReviewsOf({2}, {OneDayAgo}, BOOLEAN))
\* reviews posted as long ago as the cutoff "2 days ago"
SameAgeListing == Listing(ReviewsOf({1, 2}, {TwoDaysAgo}, {FALSE}))
\* one low-rating element of a newest-first page
Posted(id, posted) == [id |-> id, reviewPostedAt |-> posted, isHighRating |-> FALSE]
\* the newest-first stream 1 day, 1 day, 3 days, 5 days
StreamListing ==
  [endless |-> FALSE, records |-> {}, calls |-> MaxCalls,
   stream |-> <<Posted(1, OneDayAgo), Posted(2, OneDayAgo),
                Posted(3, ThreeDaysAgo), Posted(4, FiveDaysAgo)>>]

VARIABLES
  call,                    \* the exported function called and its date argument
  page,                    \* the listing shown by the page
  now,                     \* wall clock when a posted-time is parsed
  pc,                      \* "entry", "loop", "harvested", "done"
  lastScrapedDate,         \* parameter of ScraperReviews
  isScrolling,
  scrapedReviews,          \* Map<string, any>: its entries in insertion order
  processedElementsCount,
  noNewElementsCount,
  finalReviews,            \* value ScraperReviews resolves with
  outcome,                 \* how the exported function settled
  calls,                   \* history: page.evaluate calls issued by the loop
  failedCall,              \* history: the call that threw (0: none)
  atFailure,               \* history: the map when the failing call was issued
  reported,                \* history: the total of the last answer
  zeroRun,                 \* history: latest consecutive answers with an empty suffix
  seenBefore,              \* history: the distinct records returned before the first
                           \*   stopping record, in the order of their first return
  stopSeen,                \* history: a stopping record has been returned
  cmpSeen,                 \* history: the comparison results obtained so far
  rulesSeen,               \* history: for the records met by the for-loop, the
                           \*   blocks of its body that classified one of them
  accepted,                \* history: the distinct records whose observation passed
                           \*   the rule of the mode, in the order of their first pass
  slotsDone,               \* history: slot indexes handed to per-item extraction
  slotsRepeated,           \* history: slot indexes handed to it more than once
  twin,                    \* the locals of ScrapeReviews (index.ts) run on the
                           \*   responses a harvest without cutoff receives
  newDate,                 \* first argument of a direct call of isDateBefore
  lastDate,                \* its second argument
  result,                  \* the Date a direct call of parseRelativeDate returned
  answer                   \* what a direct call of isDateBefore returned

vars == <<call, page, now, zone, newDate, lastDate, result, answer, pc, lastScrapedDate, isScrolling, scrapedReviews,
          processedElementsCount, noNewElementsCount, finalReviews, outcome,
          calls, failedCall, atFailure, reported, zeroRun, seenBefore, stopSeen,
          cmpSeen, rulesSeen, accepted, slotsDone, slotsRepeated, twin>>

(***************************************************************************)
(* Map<string, any>                                                        *)
(***************************************************************************)
MapHas(m, id) == \E k \in 1..Len(m) : m[k].id = id
\* mutant: a new key is put in front of the entries
MapSetInFront(m, id, v) ==
  IF MapHas(m, id)
  THEN [k \in 1..Len(m) |-> IF m[k].id = id THEN v ELSE m[k]]
  ELSE <<v>> \o m
\* Map.prototype.set: a present key keeps its position and takes the new value
MapSet(m, id, v) ==
  IF MapHas(m, id)
  THEN [k \in 1..Len(m) |-> IF m[k].id = id THEN v ELSE m[k]]
  ELSE Append(m, v)

\* mutant: the has() test is dropped, set() is called for every record
AddReviewOverwrite(m, review) == MapSet(m, review.id, review)
\* if (!scrapedReviews.has(review.id)) scrapedReviews.set(review.id, review)
AddReview(m, review) ==
  IF ~MapHas(m, review.id) THEN MapSet(m, review.id, review) ELSE m

(***************************************************************************)
(* The for-loop over the batch.  st carries isScrolling, the map, whether  *)
(* a break left the loop, and the trace of comparison results.             *)
(***************************************************************************)
Compare(review, tick) ==
  isDateBefore(parseRelativeDate(review.reviewPostedAt, now),
               parseRelativeDate(lastScrapedDate.text, MakeDate(now.day, now.ms + tick)))

\* mutant: a high rating in range ends the harvest as it does without a cutoff
CutoffBlockStopOnHigh(review, cmp, st) ==
  IF ~Truthy(lastScrapedDate) THEN [st EXCEPT !.continued = FALSE]
  ELSE IF cmp = "true"
       THEN IF review.isHighRating
            THEN [st EXCEPT !.continued = TRUE, !.isScrolling = FALSE]
            ELSE [st EXCEPT !.continued = FALSE,
                            !.scrapedReviews = AddReview(@, review)]
       ELSE [st EXCEPT !.continued = FALSE, !.isScrolling = FALSE]
\* mutant: an in-range record is stored whatever its rating
CutoffBlockKeepHigh(review, cmp, st) ==
  IF ~Truthy(lastScrapedDate) THEN [st EXCEPT !.continued = FALSE]
  ELSE IF cmp = "true"
       THEN [st EXCEPT !.continued = FALSE,
                       !.scrapedReviews = AddReview(@, review)]
       ELSE [st EXCEPT !.continued = FALSE, !.isScrolling = FALSE]
\* mutant: a posted-time older than the cutoff does not end the harvest
CutoffBlockKeepScrolling(review, cmp, st) ==
  IF ~Truthy(lastScrapedDate) THEN [st EXCEPT !.continued = FALSE]
  ELSE IF cmp = "true"
       THEN IF review.isHighRating
            THEN [st EXCEPT !.continued = TRUE]
            ELSE [st EXCEPT !.continued = FALSE,
                            !.scrapedReviews = AddReview(@, review)]
       ELSE [st EXCEPT !.continued = FALSE]
\* if (lastScrapedDate) { ... }
CutoffBlock(review, cmp, st) ==
  IF ~Truthy(lastScrapedDate) THEN [st EXCEPT !.continued = FALSE]
  ELSE IF cmp = "true"
       THEN IF review.isHighRating
            THEN [st EXCEPT !.continued = TRUE]
            ELSE [st EXCEPT !.continued = FALSE,
                            !.scrapedReviews = AddReview(@, review)]
       ELSE [st EXCEPT !.continued = FALSE, !.isScrolling = FALSE]

\* mutant: the record is stored before its rating is looked at
SaturationBlockStoreFirst(review, st) ==
  IF st.continued \/ lastScrapedDate.defined THEN st
  ELSE IF review.isHighRating
       THEN [st EXCEPT !.scrapedReviews = AddReview(@, review),
                       !.isScrolling = FALSE, !.broke = TRUE]
       ELSE [st EXCEPT !.scrapedReviews = AddReview(@, review)]
\* if (lastScrapedDate === undefined) { ... }
SaturationBlock(review, st) ==
  IF st.continued \/ lastScrapedDate.defined THEN st
  ELSE IF review.isHighRating
       THEN [st EXCEPT !.isScrolling = FALSE, !.broke = TRUE]
       ELSE [st EXCEPT !.scrapedReviews = AddReview(@, review)]

\* the blocks of the body that classify a record: the cutoff block is
\* entered when if (lastScrapedDate) holds, the saturation block when the
\* body gets to it and if (lastScrapedDate === undefined) holds
RulesApplied(review, cmp, st) ==
  (IF Truthy(lastScrapedDate) THEN {"cutoff"} ELSE {})
  \cup (IF ~CutoffBlock(review, cmp, st).continued /\ ~lastScrapedDate.defined
        THEN {"saturation"} ELSE {})

\* the body of the for-loop for one record, given its comparison result
ClassifyWith(review, cmp, st) ==
  [SaturationBlock(review, CutoffBlock(review, cmp, st))
     EXCEPT !.trace = Append(@, [review |-> review, cmp |-> cmp, seen |-> TRUE,
                                 rules |-> RulesApplied(review, cmp, st)])]

\* one record of the batch: classified, or only noted as returned after a break
StepReview(review, cmp, st) ==
  IF st.broke
  THEN [st EXCEPT !.trace = Append(@, [review |-> review, cmp |-> "none", seen |-> FALSE,
                                       rules |-> {}])]
  ELSE ClassifyWith(review, cmp, st)

\* for (const review of reviews) { ... }: F[i] is the state after record i,
\* cmps[i] being the result of the comparison of record i; after a break the
\* remaining records are only noted as returned
ProcessReviews(reviews, cmps, st) ==
  LET F[i \in 0..Len(reviews)] ==
        IF i = 0 THEN st ELSE StepReview(reviews[i], cmps[i], F[i - 1])
  IN  F[Len(reviews)]

\* the clock is read only when a cutoff is compared
Ticks == IF Truthy(lastScrapedDate) THEN 0..MaxTick ELSE {0}

\* the results isDateBefore can give for a record, over the time the clock
\* may advance between the two parse calls ("none": no cutoff, not called)
isStopedAt(review) ==
  IF Truthy(lastScrapedDate) THEN {Compare(review, k) : k \in Ticks} ELSE {"none"}

\* the comparison results of a batch: one of the possible results per record
CompareAll(reviews) ==
  LET F[i \in 0..Len(reviews)] ==
        IF i = 0 THEN {<<>>}
        ELSE {Append(c, o) : c \in F[i - 1], o \in isStopedAt(reviews[i])}
  IN  F[Len(reviews)]

(***************************************************************************)
(* The answers of page.evaluate.                                           *)
(***************************************************************************)
\* allElements.slice(processedCount): the slot indexes of the suffix
newElements(total, processedCount) == processedCount..(total - 1)
\* newElements.length
SuffixSize(total, processedCount) == Cardinality(newElements(total, processedCount))

SeqsUpTo(S, n) == UNION {[1..k -> S] : k \in 0..n}

\* The in-page code pushes one record per element of the suffix, except the
\* elements it skips (continue) or fails on.
AnswersFor(t) ==
  {[totalElements |-> t, reviews |-> r] :
     r \in SeqsUpTo(page.records, SuffixSize(t, processedElementsCount))}

\* a page of fixed order: a reveal renders none, some or all of the elements
\* that follow the ones rendered, and each element of the suffix is pushed
StreamAnswers ==
  {[totalElements |-> t,
    reviews |-> SubSeq(page.stream, processedElementsCount + 1, t)] :
     t \in processedElementsCount..Len(page.stream)}

Answers ==
  IF page.endless
  THEN {[totalElements |-> processedElementsCount + RevealSize,
         reviews |-> [i \in 1..RevealSize |->
                        [id |-> processedElementsCount + i,
                         reviewPostedAt |-> OneDayAgo, isHighRating |-> FALSE]]]}
  ELSE IF page.stream # <<>> THEN StreamAnswers
  ELSE UNION {AnswersFor(t) : t \in 0..MaxTotal}

(***************************************************************************)
(* The exported functions of index.ts up to the harvest.                   *)
(***************************************************************************)
NoValue == [defined |-> FALSE, items |-> <<>>]
Value(items) == [defined |-> TRUE, items |-> items]
Pending == [state |-> "pending", value |-> NoValue]
Resolved(v) == [state |-> "resolved", value |-> v]

\* no function of dates.ts has been called on its own
NotCalled == [kind |-> "none", day |-> 0, ms |-> 0]
NoDirectCall ==
  /\ newDate = NotCalled
  /\ lastDate = NotCalled
  /\ result = NotCalled
  /\ answer = "none"

(***************************************************************************)
(* ScrapeReviews of index.ts, the loop without a cutoff parameter: its      *)
(* locals and the number of page.evaluate calls it has issued.             *)
(***************************************************************************)
\* index.ts:156-160
ScrapeReviewsInit ==
  [isScrolling |-> TRUE, scrapedReviews |-> <<>>, processedElementsCount |-> 0,
   noNewElementsCount |-> 0, calls |-> 0]

ProgramInit ==
  /\ twin = ScrapeReviewsInit
  /\ pc = "entry"
  /\ lastScrapedDate = Undefined
  /\ isScrolling = TRUE
  /\ scrapedReviews = <<>>
  /\ processedElementsCount = 0
  /\ noNewElementsCount = 0
  /\ finalReviews = <<>>
  /\ outcome = Pending
  /\ calls = 0
  /\ failedCall = 0
  /\ atFailure = <<>>
  /\ reported = 0
  /\ zeroRun = 0
  /\ seenBefore = <<>>
  /\ stopSeen = FALSE
  /\ cmpSeen = {}
  /\ rulesSeen = {}
  /\ accepted = <<>>
  /\ slotsDone = {}
  /\ slotsRepeated = {}

histVars == <<failedCall, atFailure, reported, zeroRun, seenBefore, stopSeen,
              cmpSeen, rulesSeen, accepted, slotsDone, slotsRepeated, twin>>
loopVars == <<isScrolling, scrapedReviews, processedElementsCount,
              noNewElementsCount, finalReviews, calls, histVars>>

\* ScraperReviews(page, lastScrapedDate) called directly: lines 22-26
StartScraperReviews ==
  /\ pc = "entry"
  /\ call.fn = "ScraperReviews"
  /\ lastScrapedDate' = call.date
  /\ pc' = "loop"
  /\ UNCHANGED <<call, page, now, zone, newDate, lastDate, result, answer, outcome, loopVars>>

\* scrapeGoogleMapsReviews up to let finalReviews = await ScraperReviews(Page)
StartScrapeGoogleMapsReviews ==
  /\ pc = "entry"
  /\ call.fn = "scrapeGoogleMapsReviews"
  /\ lastScrapedDate' = Undefined
  /\ pc' = "loop"
  /\ UNCHANGED <<call, page, now, zone, newDate, lastDate, result, answer, outcome, loopVars>>

\* scrapeNewGoogleMapsReviews: an empty date throws inside the try and the
\* catch logs it; any other date reaches ScraperReviews(Page, date)
StartScrapeNewGoogleMapsReviews ==
  /\ pc = "entry"
  /\ call.fn = "scrapeNewGoogleMapsReviews"
  /\ IF call.date.text = <<>>
     THEN /\ pc' = "done"
          /\ outcome' = Resolved(NoValue)
          /\ UNCHANGED lastScrapedDate
     ELSE /\ pc' = "loop"
          /\ lastScrapedDate' = call.date
          /\ UNCHANGED outcome
  /\ UNCHANGED <<call, page, now, zone, newDate, lastDate, result, answer, loopVars>>

\* BrowserInstance, Page.goto, ReviewsTab or the first scrollBy throws: the
\* catch of the exported function logs the error and the function returns
SetupFails ==
  /\ pc = "entry"
  /\ call.fn \in {"scrapeGoogleMapsReviews", "scrapeNewGoogleMapsReviews"}
  /\ call.fn = "scrapeNewGoogleMapsReviews" => call.date.text # <<>>
  /\ pc' = "done"
  /\ outcome' = Resolved(NoValue)
  /\ UNCHANGED <<call, page, now, zone, newDate, lastDate, result, answer, lastScrapedDate, loopVars>>

(***************************************************************************)
(* ScraperReviews: one pass of while (isScrolling).                        *)
(***************************************************************************)
\* mutant: the cursor advances by the suffix size instead of taking the total
NextProcessedBySuffix(processedCount, totalElements) ==
  processedCount + SuffixSize(totalElements, processedCount)
\* processedElementsCount = totalElements
NextProcessed(processedCount, totalElements) == totalElements

\* mutant: the stall limit is tested before the increment
StallCheckLate(count, newElementsProcessed, scrolling) ==
  IF newElementsProcessed = 0
  THEN [count |-> count + 1,
        isScrolling |-> IF count >= MAX_NO_NEW_ELEMENTS THEN FALSE ELSE scrolling]
  ELSE [count |-> 0, isScrolling |-> scrolling]
\* mutant: a non-empty suffix leaves the counter as it is
StallCheckNoReset(count, newElementsProcessed, scrolling) ==
  IF newElementsProcessed = 0
  THEN [count |-> count + 1,
        isScrolling |-> IF count + 1 >= MAX_NO_NEW_ELEMENTS THEN FALSE ELSE scrolling]
  ELSE [count |-> count, isScrolling |-> scrolling]
\* if (newElementsProcessed === 0) { noNewElementsCount++; ... } else reset
StallCheck(count, newElementsProcessed, scrolling) ==
  IF newElementsProcessed = 0
  THEN [count |-> count + 1,
        isScrolling |-> IF count + 1 >= MAX_NO_NEW_ELEMENTS THEN FALSE ELSE scrolling]
  ELSE [count |-> 0, isScrolling |-> scrolling]

\* one record of index.ts:337-348: a new id is stored, and then a high rating
\* ends the harvest; a known id is passed over whatever its rating
ScrapeReviewsStep(review, b) ==
  IF b.broke \/ MapHas(b.scrapedReviews, review.id) THEN b
  ELSE [isScrolling |-> IF review.isHighRating THEN FALSE ELSE b.isScrolling,
        scrapedReviews |-> MapSet(b.scrapedReviews, review.id, review),
        broke |-> review.isHighRating]

\* for (const review of reviews) { ... } of index.ts
ScrapeReviewsBatch(reviews, t) ==
  LET F[i \in 0..Len(reviews)] ==
        IF i = 0
        THEN [isScrolling |-> t.isScrolling, scrapedReviews |-> t.scrapedReviews,
              broke |-> FALSE]
        ELSE ScrapeReviewsStep(reviews[i], F[i - 1])
  IN  F[Len(reviews)]

\* index.ts:355-373: the stall counter, then if (scrapedReviews.size > 1000)
ScrapeReviewsAfterBatch(a, t, b) ==
  LET stall == StallCheck(t.noNewElementsCount,
                          SuffixSize(a.totalElements, t.processedElementsCount),
                          b.isScrolling)
  IN  [isScrolling |-> IF Len(b.scrapedReviews) > REVIEW_LIMIT THEN FALSE
                       ELSE stall.isScrolling,
       scrapedReviews |-> b.scrapedReviews,
       processedElementsCount |-> a.totalElements,
       noNewElementsCount |-> stall.count,
       calls |-> t.calls + 1]

\* one pass of while (isScrolling) of ScrapeReviews on the answer a
ScrapeReviewsIterate(a, t) ==
  IF t.isScrolling
  THEN ScrapeReviewsAfterBatch(a, t, ScrapeReviewsBatch(a.reviews, t))
  ELSE t

\* the pass in which page.evaluate throws: index.ts:377-381
ScrapeReviewsCatch(t) ==
  IF t.isScrolling THEN [t EXCEPT !.isScrolling = FALSE, !.calls = @ + 1] ELSE t

\* ScrapeReviews takes no cutoff: it is set beside a harvest without one
Twinned == ~lastScrapedDate.defined

(***************************************************************************)
(* History of a harvest, recorded from the answers of the page.            *)
(***************************************************************************)
\* a record that is to end the harvest: the first high rating without a
\* cutoff, a posted-time that compared older than the cutoff with one
Stopping(e) ==
  \/ ~lastScrapedDate.defined /\ e.review.isHighRating
  \/ e.cmp = "false"

BeforeStop(trace) ==
  LET stops == {i \in 1..Len(trace) : Stopping(trace[i])}
      first == IF stops = {} THEN Len(trace) + 1
               ELSE CHOOSE i \in stops : \A j \in stops : i <= j
  IN  SubSeq(trace, 1, first - 1)

AddDistinct(seen, review) ==
  IF \E k \in 1..Len(seen) : seen[k] = review THEN seen ELSE Append(seen, review)

\* seen followed by the records of trace that are not yet in it
AppendDistinct(seen, trace) ==
  LET F[i \in 0..Len(trace)] ==
        IF i = 0 THEN seen ELSE AddDistinct(F[i - 1], trace[i].review)
  IN  F[Len(trace)]

\* an observation the rule of the mode accepts: a low rating met by the
\* for-loop, without a cutoff; with one, a low rating that compared true
Acceptable(e) ==
  /\ e.seen
  /\ ~e.review.isHighRating
  /\ IF lastScrapedDate.defined THEN e.cmp = "true" ELSE TRUE

Observe(a, trace) ==
  /\ reported' = a.totalElements
  /\ zeroRun' = IF newElements(a.totalElements, processedElementsCount) = {}
                THEN zeroRun + 1 ELSE 0
  /\ seenBefore' = IF stopSeen THEN seenBefore
                   ELSE AppendDistinct(seenBefore, BeforeStop(trace))
  /\ stopSeen' = (stopSeen \/ \E i \in 1..Len(trace) : Stopping(trace[i]))
  /\ cmpSeen' = cmpSeen \cup {trace[i].cmp : i \in {j \in 1..Len(trace) : trace[j].seen}}
  /\ rulesSeen' = rulesSeen
                   \cup {trace[i].rules : i \in {j \in 1..Len(trace) : trace[j].seen}}
  /\ accepted' = AppendDistinct(accepted, SelectSeq(trace, Acceptable))
  /\ slotsRepeated' = slotsRepeated
                      \cup (newElements(a.totalElements, processedElementsCount) \cap slotsDone)
  /\ slotsDone' = slotsDone \cup newElements(a.totalElements, processedElementsCount)
  /\ UNCHANGED <<failedCall, atFailure>>

\* what follows the for-loop: the stall counter and the flag
AfterBatch(newElementsProcessed, st) ==
  /\ scrapedReviews' = st.scrapedReviews
  /\ noNewElementsCount' =
       StallCheck(noNewElementsCount, newElementsProcessed, st.isScrolling).count
  /\ isScrolling' =
       StallCheck(noNewElementsCount, newElementsProcessed, st.isScrolling).isScrolling

\* the state the page's answer a leads to, st being the state after the for-loop
IterateWith(a, st) ==
  /\ processedElementsCount' = NextProcessed(processedElementsCount, a.totalElements)
  /\ AfterBatch(SuffixSize(a.totalElements, processedElementsCount), st)
  /\ twin' = IF Twinned THEN ScrapeReviewsIterate(a, twin) ELSE twin
  /\ Observe(a, st.trace)

\* page.evaluate answers a and the records of the batch compare as cmps: the
\* batch is classified, the stall counter updated
Iterate(a, cmps) ==
  IterateWith(a, ProcessReviews(a.reviews, cmps,
                   [isScrolling |-> isScrolling, scrapedReviews |-> scrapedReviews,
                    continued |-> FALSE, broke |-> FALSE, trace |-> <<>>]))

EvaluateAnswers ==
  /\ pc = "loop"
  /\ isScrolling
  /\ calls < page.calls
  /\ calls' = calls + 1
  /\ \E a \in Answers : \E cmps \in CompareAll(a.reviews) : Iterate(a, cmps)
  /\ UNCHANGED <<call, page, now, zone, newDate, lastDate, result, answer, pc, lastScrapedDate, finalReviews, outcome>>

\* mutant: the catch drops what was accumulated
CaughtReviewsCleared(m) == <<>>
\* catch (error) { isScrolling = false; break; } leaves the map as it is
CaughtReviews(m) == m

\* page.evaluate throws (container not found, page closed, ...), possibly
\* after the in-page loop has already worked on some elements of the suffix
EvaluateThrows ==
  /\ pc = "loop"
  /\ isScrolling
  /\ calls < page.calls
  /\ calls' = calls + 1
  /\ isScrolling' = FALSE
  /\ scrapedReviews' = CaughtReviews(scrapedReviews)
  /\ failedCall' = calls + 1
  /\ twin' = IF Twinned THEN ScrapeReviewsCatch(twin) ELSE twin
  /\ atFailure' = scrapedReviews
  /\ \E t \in (IF page.endless THEN {0} ELSE 0..MaxTotal) :
       LET worked == newElements(t, processedElementsCount)
       IN  /\ slotsRepeated' = slotsRepeated \cup (worked \cap slotsDone)
           /\ slotsDone' = slotsDone \cup worked
  /\ UNCHANGED <<call, page, now, zone, newDate, lastDate, result, answer, pc, lastScrapedDate, processedElementsCount,
                 noNewElementsCount, finalReviews, outcome, reported, zeroRun,
                 seenBefore, stopSeen, cmpSeen, rulesSeen, accepted>>

\* Array.from(scrapedReviews.values()); the result of finalReviews.filter(...)
\* is not assigned, so every entry is returned
ReturnReviews ==
  /\ pc = "loop"
  /\ ~isScrolling
  /\ finalReviews' = scrapedReviews
  /\ pc' = "harvested"
  /\ UNCHANGED <<call, page, now, zone, newDate, lastDate, result, answer, lastScrapedDate, isScrolling, scrapedReviews,
                 processedElementsCount, noNewElementsCount, outcome, calls,
                 histVars>>

(***************************************************************************)
(* The exported functions after the harvest.                               *)
(***************************************************************************)
\* (item) => { item.isHighRating === false; } : a block body without return
FilterCallback(item) == FALSE
\* Array.prototype.filter with that callback
Filter(items) == SelectSeq(items, FilterCallback)

\* mutant: the catch of the loop passes the error on to the caller
HarvestSettlesRethrowing(failed, items) ==
  IF failed > 0 THEN [state |-> "rejected", value |-> NoValue]
  ELSE Resolved(Value(items))
\* how the promise of ScraperReviews settles: the catch of the loop only logs
\* and breaks, and return [...finalReviews] follows the loop in every case
HarvestSettles(failed, items) == Resolved(Value(items))

Settle ==
  /\ pc = "harvested"
  /\ pc' = "done"
  /\ \/ /\ call.fn = "ScraperReviews"
        /\ outcome' = HarvestSettles(failedCall, finalReviews)
     \/ /\ call.fn = "scrapeGoogleMapsReviews"
        /\ outcome' = Resolved(Value(Filter(finalReviews)))
     \/ /\ call.fn = "scrapeNewGoogleMapsReviews"
        /\ outcome' = Resolved(NoValue)
     \/ /\ call.fn \in {"scrapeGoogleMapsReviews", "scrapeNewGoogleMapsReviews"}
        /\ outcome' = Resolved(NoValue)
  /\ UNCHANGED <<call, page, now, zone, newDate, lastDate, result, answer, lastScrapedDate, loopVars>>

Next ==
  \/ StartScraperReviews
  \/ StartScrapeGoogleMapsReviews
  \/ StartScrapeNewGoogleMapsReviews
  \/ SetupFails
  \/ EvaluateAnswers
  \/ EvaluateThrows
  \/ ReturnReviews
  \/ Settle

(***************************************************************************)
(* Specifications: the same program run against different listings.        *)
(***************************************************************************)
ScraperReviewsCall(d) == [fn |-> "ScraperReviews", date |-> d]
ScrapeGoogleCall == [fn |-> "scrapeGoogleMapsReviews", date |-> Undefined]
ScrapeNewCall(d) == [fn |-> "scrapeNewGoogleMapsReviews", date |-> Str(d)]

\* every behaviour of the loop once: no cutoff, the cutoff "", a cutoff that
\* parses (on an ageing and on a recent listing) and one that does not,
\* each on a listing sorted for it
Scenarios ==
  {<<ScrapeGoogleCall, RatedListing>>,
   <<ScraperReviewsCall(Undefined), RatedListing>>,
   <<ScraperReviewsCall(Str(EmptyText)), RatedListing>>,
   <<ScraperReviewsCall(Str(TwoDaysAgo)), DatedListing>>,
   <<ScraperReviewsCall(Str(TwoDaysAgo)), RecentListing>>,
   <<ScraperReviewsCall(Str(TwoDaysAgo)), StreamListing>>,
   <<ScraperReviewsCall(Str(TwoDaysAgo)), SameAgeListing>>,
   <<ScrapeNewCall(Gibberish), DatedListing>>,
   <<ScrapeNewCall(EmptyText), DatedListing>>}

Init ==
  /\ \E sc \in Scenarios : call = sc[1] /\ page = sc[2]
  /\ now = Noon
  /\ zone = UTCZone
  /\ NoDirectCall
  /\ ProgramInit

Spec == Init /\ [][Next]_vars

\* the listing never stops growing: every reveal renders new reviews
InitEndless ==
  /\ \E sc \in Scenarios : call = sc[1]
  /\ page = EndlessListing
  /\ now = Noon
  /\ zone = UTCZone
  /\ NoDirectCall
  /\ ProgramInit

SpecEndless == InitEndless /\ [][Next]_vars

(***************************************************************************)
(* The functions called on their own: parseRelativeDate and isDateBefore   *)
(* on texts, clocks and zones, and the in-page extraction of two elements  *)
(* followed by the for-loop without a cutoff.                              *)
(***************************************************************************)
\* 2025-03-31T00:30:00.000Z: the hour before is the day before, the month
\* before has no day 31
MonthEnd == MakeDate(DaysFromCivil(2025, 3, 31), 1800000)
\* 2025-03-30T01:30:00.000Z: 02:30 in London, half an hour after the switch
\* to summer time
SpringForward == MakeDate(DaysFromCivil(2025, 3, 30), 5400000)
\* 2025-10-26T01:30:00.000Z: 01:30 in London, half an hour after the switch back
FallBack == MakeDate(DaysFromCivil(2025, 10, 26), 5400000)

Environments ==
  {<<UTCZone, Noon>>, <<UTCZone, MonthEnd>>, <<LondonZone, Noon>>,
   <<LondonZone, SpringForward>>, <<LondonZone, FallBack>>}

AcceptedTexts ==
  {OneDayAgo, TwoDaysAgo, AWeekAgo, AnHourAgo, FiveMinutesAgo, HalfMinuteAgo,
   AMonthAgo, AYearAgo, PaddedTwoDays, AgesAgo}
RejectedTexts ==
  {EmptyText, Gibberish, UnknownDate, NoAgo, NoAmount, WordAmount, Glued,
   BadUnit, Trailing, Negative}
ComparedTexts ==
  {OneDayAgo, TwoDaysAgo, ThreeDaysAgo, AnHourAgo, AgesAgo, Gibberish}

\* reviewText.substring(0, end)
substring(text, end) == SubSeq(text, 1, IF Len(text) < end THEN Len(text) ELSE end)
\* mutant: the whole body text goes into the identifier
reviewIdWholeText(reviewName, reviewText) == reviewName \o <<"_">> \o reviewText
\* const reviewId = `${reviewName}_${reviewText.substring(0, 50)}`
reviewId(reviewName, reviewText) == reviewName \o <<"_">> \o substring(reviewText, 50)

\* scrapedReviews.push({ id: reviewId, reviewName, reviewPostedAt, ... })
Extract(ele) ==
  [id |-> reviewId(ele.reviewName, ele.reviewText),
   reviewName |-> ele.reviewName,
   reviewText |-> ele.reviewText,
   reviewPostedAt |-> ele.reviewPostedAt,
   isHighRating |-> ele.isHighRating]

\* body texts: two that share their first 50 characters, one that differs
\* from them in character 50, a short one
Opening == [i \in 1..49 |-> "x"]
BodyTexts ==
  {Opening \o <<"a", "b">>, Opening \o <<"a", "c", "d">>, Opening \o <<"b">>,
   <<"o", "k">>}
\* the rendered review elements: slot index, author, body, posted-time, rating
Elements ==
  [slot : 0..1, reviewName : {<<"A", "l">>, <<"B", "o">>}, reviewText : BodyTexts,
   reviewPostedAt : {OneDayAgo, ThreeDaysAgo}, isHighRating : BOOLEAN]

DirectCalls ==
  {[fn |-> "parseRelativeDate", args |-> <<t>>] : t \in AcceptedTexts \cup RejectedTexts}
  \cup {[fn |-> "isDateBefore", args |-> <<t1, t2>>] : t1 \in ComparedTexts, t2 \in ComparedTexts}
  \cup {[fn |-> "extract", args |-> <<e1, e2>>] : e1 \in Elements, e2 \in Elements}

InitDirect ==
  /\ call \in DirectCalls
  /\ page = Listing({})
  /\ \E env \in Environments :
       /\ zone = env[1]
       /\ now = env[2]
       /\ call.fn = "extract" => env = <<UTCZone, Noon>>
  /\ NoDirectCall
  /\ ProgramInit

\* parseRelativeDate(text) called when the clock shows now
ParseCall ==
  /\ pc = "entry"
  /\ call.fn = "parseRelativeDate"
  /\ result' = parseRelativeDate(call.args[1], now)
  /\ pc' = "done"
  /\ UNCHANGED <<call, page, now, zone, newDate, lastDate, answer, lastScrapedDate,
                 outcome, loopVars>>

\* isDateBefore(parseRelativeDate(t1), parseRelativeDate(t2)): the clock may
\* advance between the two parse calls
CompareCall ==
  /\ pc = "entry"
  /\ call.fn = "isDateBefore"
  /\ \E tick \in 0..MaxTick :
       /\ newDate' = parseRelativeDate(call.args[1], now)
       /\ lastDate' = parseRelativeDate(call.args[2], MakeDate(now.day, now.ms + tick))
  /\ answer' = isDateBefore(newDate', lastDate')
  /\ pc' = "done"
  /\ UNCHANGED <<call, page, now, zone, result, lastScrapedDate, outcome, loopVars>>

\* two elements are extracted in the page and the batch of the two records
\* goes through the for-loop of a harvest without cutoff
ExtractCall ==
  /\ pc = "entry"
  /\ call.fn = "extract"
  /\ scrapedReviews' =
       ProcessReviews(<<Extract(call.args[1]), Extract(call.args[2])>>, <<"none", "none">>,
                      [isScrolling |-> isScrolling, scrapedReviews |-> scrapedReviews,
                       continued |-> FALSE, broke |-> FALSE, trace |-> <<>>]).scrapedReviews
  /\ pc' = "done"
  /\ UNCHANGED <<call, page, now, zone, newDate, lastDate, result, answer,
                 lastScrapedDate, isScrolling, processedElementsCount,
                 noNewElementsCount, finalReviews, outcome, calls, histVars>>

NextDirect ==
  \/ ParseCall
  \/ CompareCall
  \/ ExtractCall

SpecDirect == InitDirect /\ [][NextDirect]_vars

(***************************************************************************)
(* Properties.                                                             *)
(***************************************************************************)
UniqueIds(m) == \A i, j \in 1..Len(m) : m[i].id = m[j].id => i = j

\* the first record of every id, in order
UniqueById(s) ==
  LET F[k \in 0..Len(s)] ==
        IF k = 0 THEN <<>>
        ELSE IF \E j \in 1..(k - 1) : s[j].id = s[k].id
             THEN F[k - 1] ELSE Append(F[k - 1], s[k])
  IN  F[Len(s)]

Returned == pc \in {"harvested", "done"} /\ calls > 0

\* C1: the map never holds two entries with one identity, and no step
\* changes or removes an entry that is stored: a later record with a stored
\* identity leaves the entry of the first observation as it is.
C1_DedupFirstWins ==
  [][/\ UniqueIds(scrapedReviews')
     /\ Len(scrapedReviews') >= Len(scrapedReviews)
     /\ \A k \in 1..Len(scrapedReviews) : scrapedReviews'[k] = scrapedReviews[k]]_vars

\* two different records with one identity were returned and the harvest
\* ended with the first of them stored
C1_Witness ==
  /\ pc = "harvested"
  /\ \E i, j \in 1..Len(seenBefore) :
       /\ i < j
       /\ seenBefore[i].id = seenBefore[j].id
       /\ \E k \in 1..Len(finalReviews) : finalReviews[k] = seenBefore[i]

\* C2: without a cutoff, once the first high-rating record has been
\* returned, the result is exactly the first record of every identity
\* returned before it; the high-rating record and what follows it in its
\* batch are not in the result.
C2_SaturationResult ==
  (Returned /\ ~lastScrapedDate.defined /\ stopSeen)
    => /\ finalReviews = UniqueById(seenBefore)
       /\ \A k \in 1..Len(finalReviews) : ~finalReviews[k].isHighRating

\* a harvest without cutoff ended by a high rating after a repeated identity
C2_Witness ==
  /\ pc = "harvested"
  /\ ~lastScrapedDate.defined
  /\ stopSeen
  /\ Len(finalReviews) >= 1
  /\ Len(seenBefore) > Len(finalReviews)

\* C3: with a cutoff, every stored record was returned before the first
\* record that compared older than the cutoff.
C3_NothingAcceptedAfterOlder ==
  Truthy(lastScrapedDate)
    => \A k \in 1..Len(scrapedReviews) :
         \E i \in 1..Len(seenBefore) : seenBefore[i] = scrapedReviews[k]

\* C4: with a cutoff, as long as no record compared older, no call threw
\* and fewer than three answers in a row had an empty suffix, the loop goes
\* on: a comparison that is null does not end it.
C4_NullIsNotDecisive ==
  (/\ pc = "loop"
   /\ Truthy(lastScrapedDate)
   /\ "false" \notin cmpSeen
   /\ failedCall = 0
   /\ zeroRun < MAX_NO_NEW_ELEMENTS)
    => isScrolling

\* C5: a pass that ends with more than 1000 stored entries ends the loop.
C5_CapStopsTheLoop ==
  Len(scrapedReviews) > REVIEW_LIMIT => ~isScrolling

\* C6: three answers in a row with an empty suffix end the loop, and a
\* loop that ended without a thrown call, without a high rating (no
\* cutoff) and without a record that failed the comparison (cutoff) has
\* seen three such answers in a row.
C6_StallTermination ==
  pc = "loop"
    => /\ zeroRun >= 3 => ~isScrolling
       /\ ~isScrolling
            => \/ zeroRun >= 3
               \/ failedCall > 0
               \/ stopSeen
               \/ "null" \in cmpSeen

\* the loop was ended by the third empty answer alone, after it had
\* collected something
C6_Witness ==
  /\ pc = "loop"
  /\ ~isScrolling
  /\ zeroRun = 3
  /\ failedCall = 0
  /\ ~stopSeen
  /\ "null" \notin cmpSeen
  /\ Len(scrapedReviews) >= 1

\* C7: when call k > 1 throws, no further call is issued and the map, and
\* the returned sequence, is the map as it was when call k was issued.
C7_PartialResultOnFailure ==
  failedCall > 1
    => /\ calls = failedCall
       /\ ~isScrolling
       /\ scrapedReviews = atFailure
       /\ pc \in {"harvested", "done"} => finalReviews = atFailure

\* a later call threw and the harvest returned what it had
C7_Witness ==
  /\ pc = "harvested"
  /\ failedCall > 1
  /\ Len(finalReviews) >= 1

\* C8: called with a date that is empty or does not parse, no exported
\* function lets the loop issue a page.evaluate call.
C8_InvalidCutoffFailsFast ==
  (call.date.defined /\ parseRelativeDate(call.date.text, now) = Null)
    => calls = 0

C10_NoReExtraction == slotsRepeated = {}

LowRating(item) == item.isHighRating = FALSE

\* C11: when scrapeGoogleMapsReviews reaches its return statement after a
\* harvest in which no call failed, the array it returns holds the
\* low-rating reviews of the harvest, in the harvest's order (so it is not
\* empty when the harvest holds one).
C11_ReturnsLowRated ==
  (/\ pc = "done"
   /\ call.fn = "scrapeGoogleMapsReviews"
   /\ outcome.value.defined
   /\ failedCall = 0)
    => outcome.value.items = SelectSeq(finalReviews, LowRating)

\* C12: called with the empty date, or when a call of the harvest failed,
\* scrapeNewGoogleMapsReviews ends with its promise rejected.
C12_ErrorsReachCaller ==
  (/\ pc = "done"
   /\ call.fn = "scrapeNewGoogleMapsReviews"
   /\ (call.date.text = <<>> \/ failedCall > 0))
    => outcome.state = "rejected"

\* C13: with a cutoff, as long as every comparison gave true and no call
\* threw, the map holds exactly the first low-rating record of every
\* identity returned so far (a high-rating record is not stored, the records
\* after it in its batch are classified), and the loop goes on unless three
\* answers in a row had an empty suffix.
C13_HighRatingSkipped ==
  (/\ pc = "loop"
   /\ Truthy(lastScrapedDate)
   /\ cmpSeen \subseteq {"true"}
   /\ failedCall = 0)
    => /\ scrapedReviews = UniqueById(SelectSeq(seenBefore, LowRating))
       /\ zeroRun < MAX_NO_NEW_ELEMENTS => isScrolling

\* the first answer held an in-range high rating followed by a low rating:
\* the second one is stored and the loop goes on
C13_Witness ==
  /\ pc = "loop"
  /\ Truthy(lastScrapedDate)
  /\ calls = 1
  /\ isScrolling
  /\ Len(seenBefore) = 2
  /\ seenBefore[1].isHighRating
  /\ scrapedReviews = <<seenBefore[2]>>

\* C14: a harvest comes to an end whatever the page does: in particular no
\* pass of the loop is started with more than 1000 stored entries, so a
\* page that renders new acceptable reviews on every reveal is asked at most
\* until the map exceeds that size.
C14_EveryHarvestEnds ==
  [][calls' > calls => Len(scrapedReviews) <= REVIEW_LIMIT]_vars

\* C20: the returned sequence lists the first accepted record of every
\* identity, in the order in which these records were first accepted.
C20_InsertionOrder ==
  pc \in {"harvested", "done"} => finalReviews = UniqueById(accepted)

\* two identities were stored and a later record of a stored identity was
\* accepted by the rule of the mode without moving or replacing anything
C20_Witness ==
  /\ pc = "harvested"
  /\ Len(finalReviews) >= 2
  /\ Len(accepted) > Len(finalReviews)
  /\ accepted[Len(accepted)].id = finalReviews[1].id

DirectlyCalled(fn) == pc = "done" /\ call.fn = fn

\* the instant a lies before the instant b
Earlier(a, b) == a.day < b.day \/ (a.day = b.day /\ a.ms < b.ms)

C16_ComparatorUndecided ==
  DirectlyCalled("isDateBefore")
    => /\ answer \in {"true", "false", "null"}
       /\ (newDate.kind # "date" \/ lastDate.kind # "date") => answer = "null"

\* an Invalid Date was compared with a valid one
C16_Witness ==
  /\ DirectlyCalled("isDateBefore")
  /\ newDate.kind = "nan"
  /\ lastDate.kind = "date"
  /\ answer = "null"

\* C17: parseRelativeDate returns null for a text that is not
\* '(integer | a | an) unit [s] ago': "", "gibberish", "Unknown date", a
\* missing word, a number in letters, a missing space, an unknown unit, a
\* trailing character, a sign.
C17_ParserRejection ==
  (DirectlyCalled("parseRelativeDate") /\ call.args[1] \in RejectedTexts)
    => result = Null

\* "Unknown date" was parsed
C17_Witness ==
  /\ DirectlyCalled("parseRelativeDate")
  /\ call.args = <<UnknownDate>>
  /\ result = Null

\* milliseconds from the instant a to the later instant b
Elapsed(a, b) == (b.day - a.day) * MS_PER_DAY + (b.ms - a.ms)

\* what the texts of seconds, minutes and hours stand for, in milliseconds
ElapsedMs ==
  [t \in {AnHourAgo, FiveMinutesAgo, HalfMinuteAgo} |->
     IF t = AnHourAgo THEN MS_PER_HOUR ELSE IF t = FiveMinutesAgo THEN 300000 ELSE 30000]
\* what the texts of days and weeks stand for, in days
ElapsedDays ==
  [t \in {OneDayAgo, TwoDaysAgo, PaddedTwoDays, AWeekAgo} |->
     IF t = OneDayAgo THEN 1 ELSE IF t = AWeekAgo THEN 7 ELSE 2]

\* C18: for a matching text parseRelativeDate returns now minus the amount
\* of the unit: exactly that many milliseconds for seconds, minutes and
\* hours; that many days, a week being 7, for days and weeks (give or take
\* the hour a day of the calendar may be longer or shorter); spaces around
\* the text and upper-case letters change nothing.
C18_ParserResult ==
  DirectlyCalled("parseRelativeDate")
    => /\ call.args[1] \in DOMAIN ElapsedMs
            => /\ result.kind = "date"
               /\ Elapsed(result, now) = ElapsedMs[call.args[1]]
       /\ call.args[1] \in DOMAIN ElapsedDays
            => /\ result.kind = "date"
               /\ Elapsed(result, now) >= ElapsedDays[call.args[1]] * MS_PER_DAY - MS_PER_HOUR
               /\ Elapsed(result, now) <= ElapsedDays[call.args[1]] * MS_PER_DAY + MS_PER_HOUR
       /\ call.args[1] = PaddedTwoDays => result = parseRelativeDate(TwoDaysAgo, now)

\* the two texts agree in the characters the identifier takes from a body
SameOpening(t1, t2) ==
  \A i \in 1..50 : /\ (i <= Len(t1)) <=> (i <= Len(t2))
                   /\ i <= Len(t1) => t1[i] = t2[i]

\* C19: two elements with the same author name and the same first 50
\* characters of body text get the same identifier, whatever their slot,
\* rating, posted-time and the rest of the body; when the first of them is
\* stored the second one is not.
C19_IdentityStability ==
  (/\ DirectlyCalled("extract")
   /\ call.args[1].reviewName = call.args[2].reviewName
   /\ SameOpening(call.args[1].reviewText, call.args[2].reviewText))
    => /\ Extract(call.args[1]).id = Extract(call.args[2]).id
       /\ ~call.args[1].isHighRating => scrapedReviews = <<Extract(call.args[1])>>

\* two elements that differ in slot, posted-time and the body after its
\* first 50 characters: one entry
C19_Witness ==
  /\ DirectlyCalled("extract")
  /\ call.args[1].reviewName = call.args[2].reviewName
  /\ SameOpening(call.args[1].reviewText, call.args[2].reviewText)
  /\ call.args[1].reviewText # call.args[2].reviewText
  /\ call.args[1].slot # call.args[2].slot
  /\ call.args[1].reviewPostedAt # call.args[2].reviewPostedAt
  /\ ~call.args[1].isHighRating
  /\ ~call.args[2].isHighRating
  /\ Len(scrapedReviews) = 1

\* C21: once isScrolling is false the loop issues no further page.evaluate
\* call and hands no further element to the extraction, and isScrolling stays
\* false; on the stream 1 day, 1 day, 3 days, 5 days with the cutoff
\* "2 days ago" the loop has stopped once the third element was extracted,
\* with the first two records as the result.
StreamHarvest == page = StreamListing /\ failedCall = 0 /\ 2 \in slotsDone
C21_NoRevealAfterStop ==
  /\ [][~isScrolling => /\ ~isScrolling'
                        /\ calls' = calls
                        /\ slotsDone' = slotsDone]_vars
  /\ [](StreamHarvest =>
          /\ ~isScrolling
          /\ scrapedReviews = SubSeq(StreamListing.stream, 1, 2))
\* the stream harvest stopped at the third element with calls to spare
C21_Witness ==
  /\ StreamHarvest
  /\ pc = "done"
  /\ calls < page.calls
  /\ reported = 3
  /\ outcome = Resolved(Value(SubSeq(StreamListing.stream, 1, 2)))
\* C22: with a cutoff, a record whose posted-time text is the cutoff text
\* compares at-or-after the cutoff whatever the clock does between the two
\* parse calls: every comparison of such a record gives true.
C22_SameAgeInRange ==
  (page = SameAgeListing /\ lastScrapedDate = Str(TwoDaysAgo))
    => cmpSeen \subseteq {"true"}
\* C23: whatever the lastScrapedDate argument is, every record the for-loop
\* meets is classified by exactly one of the two blocks, the cutoff block or
\* the saturation block.
C23_ModeSelection == \A rules \in rulesSeen : Cardinality(rules) = 1
\* C24: noNewElementsCount is the number of the latest consecutive answers
\* whose suffix was empty and lies in 0..3; an answer with a non-empty suffix
\* sets it to 0 whether or not a record was inserted.
C24_StallCounter ==
  /\ [](/\ noNewElementsCount = zeroRun
        /\ noNewElementsCount \in 0..MAX_NO_NEW_ELEMENTS)
  /\ [][(calls' > calls /\ failedCall' = 0 /\ reported' > processedElementsCount)
          => noNewElementsCount' = 0]_vars
\* an empty answer, then an answer with one element and nothing inserted
C24_Witness ==
  /\ calls = 2
  /\ failedCall = 0
  /\ reported = 1
  /\ slotsDone = {0}
  /\ scrapedReviews = <<>>
  /\ noNewElementsCount = 0
\* C25: with or without a cutoff, no entry of the map has a high rating, nor
\* has any item of the array ScraperReviews builds and resolves with.
NoHighRating(items) == \A k \in 1..Len(items) : ~items[k].isHighRating
C25_NoHighRatingStored ==
  /\ NoHighRating(scrapedReviews)
  /\ NoHighRating(finalReviews)
  /\ call.fn = "ScraperReviews" => NoHighRating(outcome.value.items)
\* a harvest with a cutoff returned in-range high ratings and yet resolved
\* with a non-empty array
C25_Witness ==
  /\ pc = "done"
  /\ call.fn = "ScraperReviews"
  /\ Truthy(lastScrapedDate)
  /\ outcome.value.items # <<>>
  /\ \E k \in 1..Len(seenBefore) : seenBefore[k].isHighRating
\* C26: the promise of ScraperReviews is never rejected: until it settles it
\* is pending, and it settles resolved with an array, which is the map as it
\* was when a call failed and so the empty array when the first call failed.
C26_NeverRejects ==
  call.fn = "ScraperReviews"
    => /\ outcome.state \in {"pending", "resolved"}
       /\ pc = "done" => /\ outcome.state = "resolved"
                         /\ outcome.value.defined
                         /\ failedCall > 0 => outcome.value.items = atFailure
                         /\ failedCall = 1 => outcome.value.items = <<>>
\* the very first call of page.evaluate threw and the promise resolved
C26_Witness ==
  /\ call.fn = "ScraperReviews"
  /\ pc = "done"
  /\ calls = 1
  /\ failedCall = 1
  /\ outcome = Resolved(Value(<<>>))
\* C27: on the same answers of the page, ScrapeReviews and a harvest of
\* ScraperReviews without cutoff issue the same page.evaluate calls, stop in
\* the same pass and return the same items in the same order.
C27_LoopsAgree ==
  Twinned => /\ twin.calls = calls
             /\ twin.isScrolling = isScrolling
             /\ Returned => finalReviews = twin.scrapedReviews
====
